---- MODULE Spec2Model ----
(***************************************************************************)
(* The NYC taxi dashboard (src/dashboard/app.py): a Streamlit script that  *)
(* is executed from top to bottom at session start and again on every      *)
(* change of a sidebar control.  A DataFrame is its set of column names and *)
(* its sequence of rows, a row a function from column names to cells, a    *)
(* cell either Null (<<>>) or a one-element tuple <<v>>.  Timestamps are   *)
(* minutes since midnight of day 0 (day 1 is Monday 2024-01-01), dates are *)
(* day numbers; distances are miles and fares dollars, as integers.        *)
(***************************************************************************)
EXTENDS Integers, Sequences, FiniteSets, TLC

VARIABLES
    raw_trips,          \* content of yellow_tripdata_2024-01.parquet
    load_taxi_cache,    \* st.cache_data entry of load_taxi: <<>> or <<table>>
    runs,               \* how often each stage has been executed this session
    taxi_df,            \* module-level taxi_df after cleaning and with_columns
    seed_pick,          \* row numbers the seed-42 generator selects: {} until first drawn
    vis_sam,            \* the sample, joined with the lookups
    metrics,            \* what the st.metric cards display
    date_range,         \* value of st.sidebar.date_input (1 or 2 dates)
    hour_range,         \* value of st.sidebar.slider
    selected_payments,  \* value of st.sidebar.multiselect
    filtered_df,        \* filtered_df after the three filters
    zone_counts_vis,    \* tab1 aggregate
    pay_type_vis,       \* tab4 aggregate
    status              \* "init", "ok", "error" (script raised), or a stage name

vars == <<raw_trips, load_taxi_cache, runs, taxi_df, seed_pick, vis_sam, metrics,
          date_range, hour_range, selected_payments, filtered_df,
          zone_counts_vis, pay_type_vis, status>>

----------------------------------------------------------------------------
(* Bounds of the model *)

\* rows of a raw table in the cleaning specification
MaxRawRows == 1

\* rows of the trip file in the session specification
MaxRows == 3

\* script executions per session
MaxRuns == 3

----------------------------------------------------------------------------
(* Cells, rows, tables *)

Null == <<>>

Some(v) == <<v>>

Min(a, b) == IF a <= b THEN a ELSE b

\* polars comparisons: a comparison with null is null, and DataFrame.filter
\* (SelectSeq below) keeps the rows on which the predicate is true, in order
Gt(c, k) == c # Null /\ c[1] > k

Le(c, k) == c # Null /\ c[1] <= k

Ge(c, k) == c # Null /\ c[1] >= k

Lt2(c, d) == c # Null /\ d # Null /\ c[1] < d[1]

\* a DataFrame: its schema and its rows; a row is a function on the schema
Frame(cols, rows) == [columns |-> cols, rows |-> rows]

Height(df) == Len(df.rows)

\* a sequence of rows given as a function on 1..n, as a tuple
Rows(s) == SubSeq(s, 1, Len(s))

MinutesPerHour == 60

MinutesPerDay == MinutesPerHour * 24

\* day d, hour h, minute m as a timestamp
At(d, h, m) == d * MinutesPerDay + h * MinutesPerHour + m

----------------------------------------------------------------------------
(* Cleaning, lines 111-124 *)

NotNullCritical(r) ==
    /\ r.tpep_pickup_datetime # Null
    /\ r.tpep_dropoff_datetime # Null
    /\ r.PULocationID # Null
    /\ r.DOLocationID # Null
    /\ r.fare_amount # Null

MaxTripDistance == 50

MaxFareAmount == 500

DistancePositive(r) == Gt(r.trip_distance, 0)

DistanceInRangeStrict(r) == r.trip_distance # Null /\ r.trip_distance[1] < MaxTripDistance

DistanceInRange(r) == Le(r.trip_distance, MaxTripDistance)

FarePositive(r) == Gt(r.fare_amount, 0)

FareInRange(r) == Le(r.fare_amount, MaxFareAmount)

ValidTimes(r) == Lt2(r.tpep_pickup_datetime, r.tpep_dropoff_datetime)

RemoveNulls(df) == [df EXCEPT !.rows = SelectSeq(@, NotNullCritical)]

RemoveInvalidRows(df) ==
    [df EXCEPT !.rows = SelectSeq(SelectSeq(SelectSeq(SelectSeq(@,
                            DistancePositive), DistanceInRange), FarePositive), FareInRange)]

RemoveInvalidTimes(df) == [df EXCEPT !.rows = SelectSeq(@, ValidTimes)]

Clean(df) == RemoveInvalidTimes(RemoveInvalidRows(RemoveNulls(df)))

----------------------------------------------------------------------------
(* Derived columns, lines 127-145 *)

\* (dropoff - pickup).dt.total_seconds() / 60, in minutes
TripDurationMinutes(r) ==
    IF r.tpep_pickup_datetime = Null \/ r.tpep_dropoff_datetime = Null THEN Null
    ELSE Some(r.tpep_dropoff_datetime[1] - r.tpep_pickup_datetime[1])

\* when(duration > 0).then(distance / duration).otherwise(0); the quotient is
\* kept as the pair <<miles, minutes>>
TripSpeed(r) ==
    IF Gt(r.trip_duration_minutes, 0)
    THEN (IF r.trip_distance = Null THEN Null
          ELSE Some(<<r.trip_distance[1], r.trip_duration_minutes[1]>>))
    ELSE Some(<<0, 1>>)

HourOf(t) == (t % MinutesPerDay) \div MinutesPerHour

DateOf(t) == t \div MinutesPerDay

PickupHour(r) ==
    IF r.tpep_pickup_datetime = Null THEN Null ELSE Some(HourOf(r.tpep_pickup_datetime[1]))

Weekdays == <<"Monday", "Tuesday", "Wednesday", "Thursday", "Friday", "Saturday", "Sunday">>

\* strftime('%A'); day 1 is Monday 2024-01-01
PickupDayOfWeek(r) ==
    IF r.tpep_pickup_datetime = Null THEN Null
    ELSE Some(Weekdays[((DateOf(r.tpep_pickup_datetime[1]) + 6) % 7) + 1])

\* DataFrame.with_columns: a column of that name is replaced, a new one added
AddDuration(df) ==
    [df EXCEPT !.columns = @ \cup {"trip_duration_minutes"},
               !.rows = Rows([i \in DOMAIN @ |->
                                ("trip_duration_minutes" :> TripDurationMinutes(@[i])) @@ @[i]])]

AddSpeedHourDay(df) ==
    [df EXCEPT !.columns = @ \cup {"trip_speed_mph", "pickup_hour", "pickup_day_of_week"},
               !.rows = Rows([i \in DOMAIN @ |->
                                ("trip_speed_mph" :> TripSpeed(@[i]))
                                @@ ("pickup_hour" :> PickupHour(@[i]))
                                @@ ("pickup_day_of_week" :> PickupDayOfWeek(@[i]))
                                @@ @[i]])]

AddColumns(df) == AddSpeedHourDay(AddDuration(df))

----------------------------------------------------------------------------
(* Sampling, line 147 *)

\* DataFrame.sample(n): the size of the sample, 10000 in the source, scaled
\* to the tables of the model
SampleN == 2

\* polars raises ShapeError when n exceeds the height (with_replacement=False)
SampleRaises(df) == SampleN > Height(df)

RECURSIVE TakeRows(_, _, _)
TakeRows(rows, pick, i) ==
    IF i > Len(rows) THEN <<>>
    ELSE (IF i \in pick THEN <<rows[i]>> ELSE <<>>) \o TakeRows(rows, pick, i + 1)

\* the rows the generator selected
Sample(df, pick) == [df EXCEPT !.rows = TakeRows(@, pick, 1)]

\* what a generator seeded with 42 can select from df
Picks(df) == {p \in SUBSET (1..Height(df)) : Cardinality(p) = SampleN}

----------------------------------------------------------------------------
(* Lookup joins, lines 149-175 *)

\* taxi_zone_lookup.csv
zones_df ==
    Frame({"LocationID", "Zone", "Borough"},
          << [LocationID |-> Some(1), Zone |-> Some("Midtown"), Borough |-> Some("Manhattan")],
             [LocationID |-> Some(2), Zone |-> Some("JFK Airport"), Borough |-> Some("Queens")] >>)

payment_lookup ==
    Frame({"payment_type", "payment_description"},
          << [payment_type |-> Some(0), payment_description |-> Some("Credit Card")],
             [payment_type |-> Some(1), payment_description |-> Some("Cash")],
             [payment_type |-> Some(2), payment_description |-> Some("No Charge")],
             [payment_type |-> Some(3), payment_description |-> Some("Dispute")],
             [payment_type |-> Some(4), payment_description |-> Some("Unknown")] >>)

\* the row of a left join: the left cells, then the right cells of the
\* columns other than the key (null when there is no match)
Joined(l, added, m) ==
    l @@ [c \in added |-> IF m = Null THEN Null ELSE m[1][c]]

RECURSIVE JoinRow(_, _, _, _, _, _)
JoinRow(l, added, right, left_on, right_on, j) ==
    IF j > Len(right) THEN <<>>
    ELSE (IF l[left_on] # Null /\ right[j][right_on] = l[left_on]
          THEN <<Joined(l, added, Some(right[j]))>> ELSE <<>>)
         \o JoinRow(l, added, right, left_on, right_on, j + 1)

RECURSIVE JoinRows(_, _, _, _, _, _)
JoinRows(rows, added, right, left_on, right_on, i) ==
    IF i > Len(rows) THEN <<>>
    ELSE LET hits == JoinRow(rows[i], added, right, left_on, right_on, 1)
         IN  (IF hits = <<>> THEN <<Joined(rows[i], added, Null)>> ELSE hits)
             \o JoinRows(rows, added, right, left_on, right_on, i + 1)

\* DataFrame.join(how='left')
LeftJoin(df, right, left_on, right_on) ==
    [df EXCEPT !.columns = @ \cup (right.columns \ {right_on}),
               !.rows = JoinRows(@, right.columns \ {right_on}, right.rows,
                                 left_on, right_on, 1)]

\* DataFrame.rename of two columns
Rename(df, a, a2, b, b2) ==
    [df EXCEPT !.columns = (@ \ {a, b}) \cup {a2, b2},
               !.rows = Rows([i \in DOMAIN @ |->
                                (a2 :> @[i][a]) @@ (b2 :> @[i][b])
                                @@ [c \in (DOMAIN @[i]) \ {a, b} |-> @[i][c]]])]

ZoneGuard(df) == "pickup_zone" \notin df.columns /\ "dropoff_zone" \notin df.columns

JoinZones(df) ==
    IF ZoneGuard(df)
    THEN Rename(LeftJoin(Rename(LeftJoin(df, zones_df, "PULocationID", "LocationID"),
                                "Zone", "pickup_zone", "Borough", "pickup_borough"),
                         zones_df, "DOLocationID", "LocationID"),
                "Zone", "dropoff_zone", "Borough", "dropoff_borough")
    ELSE df

JoinPayments(df) ==
    IF "payment_description" \notin df.columns
    THEN LeftJoin(df, payment_lookup, "payment_type", "payment_type")
    ELSE df

JoinLookups(df) == JoinPayments(JoinZones(df))

----------------------------------------------------------------------------
(* Metric cards, lines 184-223 *)

RECURSIVE SumCol(_, _, _)
SumCol(rows, col, i) ==
    IF i > Len(rows) THEN 0
    ELSE (IF rows[i][col] = Null THEN 0 ELSE rows[i][col][1]) + SumCol(rows, col, i + 1)

MetricCardsWrongColumn(df) ==
    [trips |-> Height(df),
     total_fare |-> SumCol(df.rows, "trip_distance", 1),
     total_distance |-> SumCol(df.rows, "trip_distance", 1),
     total_duration |-> SumCol(df.rows, "trip_duration_minutes", 1)]

\* len, and the sums the four cards show (the three means are sum / len)
MetricCards(df) ==
    [trips |-> Height(df),
     total_fare |-> SumCol(df.rows, "fare_amount", 1),
     total_distance |-> SumCol(df.rows, "trip_distance", 1),
     total_duration |-> SumCol(df.rows, "trip_duration_minutes", 1)]

----------------------------------------------------------------------------
(* Sidebar controls, lines 233-262 *)

SetMin(S) == CHOOSE x \in S : \A y \in S : x <= y

SetMax(S) == CHOOSE x \in S : \A y \in S : x >= y

PickupTimes(df) == {df.rows[i].tpep_pickup_datetime[1] : i \in DOMAIN df.rows}

\* st.date_input turns the datetimes min_date and max_date into dates
MinDate(df) == DateOf(SetMin(PickupTimes(df)))

MaxDate(df) == DateOf(SetMax(PickupTimes(df)))

DefaultDateRange(df) == <<MinDate(df), MaxDate(df)>>

\* a range within [min_value, max_value], or the start alone while the user
\* has not yet picked the end
DateRanges(df) ==
    {dr \in (MinDate(df)..MaxDate(df)) \X (MinDate(df)..MaxDate(df)) : dr[1] <= dr[2]}
    \cup {<<a>> : a \in MinDate(df)..MaxDate(df)}

MaxHour == 23

DefaultHourRange == <<0, MaxHour>>

\* slider positions the model tries
HourChoices == {0, 8, MaxHour}

HourRanges == {hr \in HourChoices \X HourChoices : hr[1] <= hr[2]}

\* the non-null payment descriptions of the sample: the options and the default
PaymentTypes(df) ==
    {df.rows[i].payment_description[1] :
        i \in {j \in DOMAIN df.rows : df.rows[j].payment_description # Null}}

----------------------------------------------------------------------------
(* Filters, lines 264-281 *)

\* a date compared with a Datetime column is cast to midnight of that date
AsDatetime(d) == d * MinutesPerDay

DateKeeps(r, dr) ==
    /\ Ge(r.tpep_pickup_datetime, AsDatetime(dr[1]))
    /\ Le(r.tpep_pickup_datetime, AsDatetime(dr[2]))

DateFilter(df, dr) ==
    LET keep(r) == DateKeeps(r, dr)
    IN  IF Len(dr) = 2 THEN [df EXCEPT !.rows = SelectSeq(@, keep)] ELSE df

HourFilter(df, hr) ==
    LET keep(r) == Ge(r.pickup_hour, hr[1]) /\ Le(r.pickup_hour, hr[2])
    IN  [df EXCEPT !.rows = SelectSeq(@, keep)]

PaymentKeepsNegated(r, sp) == r.payment_description # Null /\ r.payment_description[1] \notin sp

\* is_in: null is never a member
PaymentKeeps(r, sp) == r.payment_description # Null /\ r.payment_description[1] \in sp

PaymentFilter(df, sp) ==
    LET keep(r) == PaymentKeeps(r, sp)
    IN  IF sp # {} THEN [df EXCEPT !.rows = SelectSeq(@, keep)] ELSE df

FilterStage(df, dr, hr, sp) == PaymentFilter(HourFilter(DateFilter(df, dr), hr), sp)

----------------------------------------------------------------------------
(* Aggregates, lines 289-294 and 348-355 *)

GroupKeys(df, col) == {df.rows[i][col] : i \in DOMAIN df.rows}

GroupLen(df, col, k) == Cardinality({i \in DOMAIN df.rows : df.rows[i][col] = k})

\* the orders in which a set of rows can leave group_by and sort, neither of
\* which keeps the input order: every arrangement that is descending on col
Arrangements(G, col) ==
    {s \in [1..Cardinality(G) -> G] :
        /\ \A i, j \in DOMAIN s : i # j => s[i] # s[j]
        /\ \A i, j \in DOMAIN s : i < j => s[i][col] >= s[j][col]}

\* DataFrame.head(n)
Head_(s, n) == SubSeq(s, 1, Min(n, Len(s)))

TopN == 10

ZoneGroups(df) ==
    {[pickup_zone |-> k, zone_pickups |-> GroupLen(df, "pickup_zone", k)] :
        k \in GroupKeys(df, "pickup_zone")}

ZoneCountsVis(df) == {Head_(s, TopN) : s \in Arrangements(ZoneGroups(df), "zone_pickups")}

PercentageTruncated(count, total) == (10000 * count) \div total

\* (count * 100.0 / sum(count)).round(2), in hundredths of a percent; the
\* quotient lies halfway between two hundredths only when 32 divides total
Percentage(count, total) == (2 * 10000 * count + total) \div (2 * total)

PayGroups(df) ==
    {[payment_description |-> k,
      count |-> GroupLen(df, "payment_description", k),
      percentage |-> Percentage(GroupLen(df, "payment_description", k), Height(df))] :
        k \in GroupKeys(df, "payment_description")}

PayTypeVis(df) == Arrangements(PayGroups(df), "percentage")

----------------------------------------------------------------------------
(* Raw tables of the cleaning specification: every combination of null,    *)
(* boundary and out-of-range cells.                                        *)

RawTimes == {Null, Some(At(1, 8, 0)), Some(At(1, 8, 15))}

RawIds == {Null, Some(1)}

RawDistances == {Null, Some(0), Some(MaxTripDistance), Some(MaxTripDistance + 1)}

RawFares == {Null, Some(0), Some(MaxFareAmount), Some(MaxFareAmount + 1)}

RawRows ==
    [tpep_pickup_datetime : RawTimes, tpep_dropoff_datetime : RawTimes,
     PULocationID : RawIds, DOLocationID : RawIds,
     trip_distance : RawDistances, fare_amount : RawFares,
     payment_type : {Some(1)}]

SeqsUpTo(S, n) == UNION {[1..k -> S] : k \in 0..n}

RawColumns == {"tpep_pickup_datetime", "tpep_dropoff_datetime", "PULocationID",
               "DOLocationID", "trip_distance", "fare_amount", "payment_type"}

NoFrame == Frame({}, <<>>)

NoMetrics == [trips |-> 0, total_fare |-> 0, total_distance |-> 0, total_duration |-> 0]

NoRuns == [download |-> 0, load_taxi |-> 0, load_lookup |-> 0, cleaning |-> 0,
           enrichment |-> 0, sampling |-> 0, filter |-> 0, aggregation |-> 0]

Idle ==
    /\ load_taxi_cache = <<>>
    /\ runs = NoRuns
    /\ taxi_df = NoFrame
    /\ seed_pick = {}
    /\ vis_sam = NoFrame
    /\ metrics = NoMetrics
    /\ date_range = <<>>
    /\ hour_range = <<>>
    /\ selected_payments = {}
    /\ filtered_df = NoFrame
    /\ zone_counts_vis = <<>>
    /\ pay_type_vis = <<>>
    /\ status = "init"

InitClean ==
    /\ raw_trips \in {Frame(RawColumns, rows) : rows \in SeqsUpTo(RawRows, MaxRawRows)}
    /\ Idle

CleaningStage ==
    /\ status = "init"
    /\ taxi_df' = Clean(raw_trips)
    /\ status' = "cleaned"
    /\ UNCHANGED <<raw_trips, load_taxi_cache, runs, seed_pick, vis_sam, metrics,
                   date_range, hour_range, selected_payments, filtered_df,
                   zone_counts_vis, pay_type_vis>>

NextClean == CleaningStage

SpecClean == InitClean /\ [][NextClean]_vars

----------------------------------------------------------------------------
(* The session: one execution of the script per interaction *)

Trip(pickup, minutes, pu, fare, pay) ==
    [tpep_pickup_datetime |-> Some(pickup), tpep_dropoff_datetime |-> Some(pickup + minutes),
     PULocationID |-> Some(pu), DOLocationID |-> Some(1),
     trip_distance |-> Some(3), fare_amount |-> Some(fare), payment_type |-> Some(pay)]

\* trips of two days, at midnight and in the morning, from two zones of the
\* lookup and one it lacks, with two payment codes of the lookup and one it
\* lacks, and a trip that cleaning drops
TripRows ==
    { Trip(At(1, 0, 0), 15, 1, 10, 1),
      Trip(At(1, 8, 0), 15, 2, 20, 2),
      Trip(At(2, 8, 0), 15, 1, 30, 1),
      Trip(At(2, 0, 0), 15, 9, 40, 5),
      Trip(At(1, 8, 0), 15, 1, 0, 1) }

\* trip files whose rows come in the order of their pickup times
Chronological(rows) ==
    \A i, j \in DOMAIN rows :
        i < j => rows[i].tpep_pickup_datetime[1] <= rows[j].tpep_pickup_datetime[1]

Init ==
    /\ raw_trips \in {Frame(RawColumns, rows) :
                        rows \in {t \in SeqsUpTo(TripRows, MaxRows) : Chronological(t)}}
    /\ Idle

Bump(r, stages) == [k \in DOMAIN r |-> IF k \in stages THEN r[k] + 1 ELSE r[k]]

\* lines 42-147, which every execution runs; load_taxi's body only on a cache miss
Upstream == {"download", "load_lookup", "cleaning", "enrichment", "sampling"}
            \cup (IF load_taxi_cache = <<>> THEN {"load_taxi"} ELSE {})

\* The script from top to bottom with the sidebar holding dr, hr and sp
\* (hr = <<>>: the controls have not been rendered yet and take their defaults).
RunScript(dr, hr, sp) ==
    /\ runs.download < MaxRuns
    /\ UNCHANGED raw_trips
    /\ load_taxi_cache' = IF load_taxi_cache = <<>> THEN <<raw_trips>> ELSE load_taxi_cache
    /\ taxi_df' = AddColumns(Clean(load_taxi_cache'[1]))
    /\ IF SampleRaises(taxi_df')
       THEN /\ status' = "error"
            /\ runs' = Bump(runs, Upstream)
            /\ UNCHANGED <<seed_pick, vis_sam, metrics, date_range, hour_range,
                           selected_payments, filtered_df, zone_counts_vis, pay_type_vis>>
       ELSE /\ seed_pick' \in (IF seed_pick = {} THEN Picks(taxi_df') ELSE {seed_pick})
            /\ vis_sam' = JoinLookups(Sample(taxi_df', seed_pick'))
            /\ metrics' = MetricCards(vis_sam')
            /\ date_range' = IF hr = <<>> THEN DefaultDateRange(vis_sam') ELSE dr
            /\ hour_range' = IF hr = <<>> THEN DefaultHourRange ELSE hr
            /\ selected_payments' = IF hr = <<>> THEN PaymentTypes(vis_sam') ELSE sp
            /\ filtered_df' = FilterStage(vis_sam', date_range', hour_range',
                                          selected_payments')
            /\ zone_counts_vis' \in ZoneCountsVis(filtered_df')
            /\ pay_type_vis' \in PayTypeVis(filtered_df')
            /\ runs' = Bump(runs, Upstream \cup {"filter", "aggregation"})
            /\ status' = "ok"

StartSession == status = "init" /\ RunScript(<<>>, <<>>, {})

\* the user reruns the script without touching a control
Rerun == status \in {"ok", "error"} /\ RunScript(date_range, hour_range, selected_payments)

ChangeDateRange ==
    /\ status = "ok"
    /\ \E dr \in DateRanges(vis_sam) \ {date_range} :
          RunScript(dr, hour_range, selected_payments)

ChangeHourRange ==
    /\ status = "ok"
    /\ \E hr \in HourRanges \ {hour_range} :
          RunScript(date_range, hr, selected_payments)

ChangePayments ==
    /\ status = "ok"
    /\ \E sp \in (SUBSET PaymentTypes(vis_sam)) \ {selected_payments} :
          RunScript(date_range, hour_range, sp)

Next == StartSession \/ ChangeDateRange \/ ChangeHourRange \/ ChangePayments \/ Rerun

Spec == Init /\ [][Next]_vars

----------------------------------------------------------------------------
(* Enrichment on its own: the derived columns and the lookup joins applied  *)
(* to a table that may already carry some of the joined columns, and then   *)
(* applied again to their own result.                                       *)

Enrich(df) == JoinLookups(AddColumns(df))

JoinedColumns == {"pickup_zone", "dropoff_zone", "payment_description"}

\* df with the columns of extra already present
Preset(df, extra) ==
    [df EXCEPT !.columns = @ \cup extra,
               !.rows = Rows([i \in DOMAIN @ |-> @[i] @@ [c \in extra |-> Some("Preset")]])]

InitEnrich ==
    /\ raw_trips \in {Frame(RawColumns, rows) : rows \in SeqsUpTo(TripRows, MaxRows)}
    /\ \E extra \in SUBSET JoinedColumns :
          /\ taxi_df = Preset(Clean(raw_trips), extra)
          /\ load_taxi_cache = <<>> /\ runs = NoRuns /\ seed_pick = {}
          /\ vis_sam = NoFrame /\ metrics = NoMetrics /\ date_range = <<>>
          /\ hour_range = <<>> /\ selected_payments = {} /\ filtered_df = NoFrame
          /\ zone_counts_vis = <<>> /\ pay_type_vis = <<>> /\ status = "init"

EnrichmentStage ==
    /\ status = "init"
    /\ vis_sam' = Enrich(taxi_df)
    /\ status' = "enriched"
    /\ UNCHANGED <<raw_trips, load_taxi_cache, runs, taxi_df, seed_pick, metrics, date_range,
                   hour_range, selected_payments, filtered_df, zone_counts_vis, pay_type_vis>>

EnrichmentAgain ==
    /\ status = "enriched"
    /\ filtered_df' = Enrich(vis_sam)
    /\ status' = "enriched twice"
    /\ UNCHANGED <<raw_trips, load_taxi_cache, runs, taxi_df, seed_pick, vis_sam, metrics,
                   date_range, hour_range, selected_payments, zone_counts_vis, pay_type_vis>>

NextEnrich == EnrichmentStage \/ EnrichmentAgain

SpecEnrich == InitEnrich /\ [][NextEnrich]_vars

----------------------------------------------------------------------------
(* The two grouped aggregates on their own, over the view of a sample that  *)
(* took every cleaned trip and of controls that keep every row.             *)

\* rows of the trip file in the aggregation specification
MaxViewRows == 4

InitAgg ==
    /\ raw_trips \in {Frame(RawColumns, rows) : rows \in SeqsUpTo(TripRows, MaxViewRows)}
    /\ filtered_df = JoinLookups(AddColumns(Clean(raw_trips)))
    /\ load_taxi_cache = <<>> /\ runs = NoRuns /\ seed_pick = {} /\ taxi_df = NoFrame
    /\ vis_sam = NoFrame /\ metrics = NoMetrics /\ date_range = <<>>
    /\ hour_range = <<>> /\ selected_payments = {}
    /\ zone_counts_vis = <<>> /\ pay_type_vis = <<>> /\ status = "init"

TopPickupZones ==
    /\ status = "init"
    /\ zone_counts_vis' \in ZoneCountsVis(filtered_df)
    /\ status' = "tab1"
    /\ UNCHANGED <<raw_trips, load_taxi_cache, runs, taxi_df, seed_pick, vis_sam, metrics,
                   date_range, hour_range, selected_payments, filtered_df, pay_type_vis>>

PaymentBreakdown ==
    /\ status = "tab1"
    /\ pay_type_vis' \in PayTypeVis(filtered_df)
    /\ status' = "tab4"
    /\ UNCHANGED <<raw_trips, load_taxi_cache, runs, taxi_df, seed_pick, vis_sam, metrics,
                   date_range, hour_range, selected_payments, filtered_df, zone_counts_vis>>

NextAgg == TopPickupZones \/ PaymentBreakdown

SpecAgg == InitAgg /\ [][NextAgg]_vars

----------------------------------------------------------------------------
(* Claims about cleaning *)

\* the predicate of the cleaning contract, stated on the cells
Survivable(r) ==
    /\ r.tpep_pickup_datetime # Null /\ r.tpep_dropoff_datetime # Null
    /\ r.PULocationID # Null /\ r.DOLocationID # Null /\ r.fare_amount # Null
    /\ r.trip_distance # Null
    /\ 0 < r.trip_distance[1] /\ r.trip_distance[1] <= 50
    /\ 0 < r.fare_amount[1] /\ r.fare_amount[1] <= 500
    /\ r.tpep_pickup_datetime[1] < r.tpep_dropoff_datetime[1]

Range(s) == {s[i] : i \in DOMAIN s}

\* C1: after cleaning every surviving row satisfies the contract's predicate,
\* and the cleaned table is exactly the raw rows that satisfy it, in order.
CleanedRowsValid ==
    status = "cleaned" =>
        /\ \A i \in DOMAIN taxi_df.rows : Survivable(taxi_df.rows[i])
        /\ taxi_df.rows = SelectSeq(raw_trips.rows, Survivable)
        /\ taxi_df.columns = raw_trips.columns

\* a raw row whose only defect is a null trip_distance has been dropped
CleanWitness ==
    /\ status = "cleaned"
    /\ Height(taxi_df) = 0
    /\ \E i \in DOMAIN raw_trips.rows :
          LET r == raw_trips.rows[i] IN
          /\ r.trip_distance = Null /\ NotNullCritical(r)
          /\ FarePositive(r) /\ FareInRange(r) /\ ValidTimes(r)

----------------------------------------------------------------------------
(* Claims about the session *)

IsDefaultSelection ==
    /\ date_range = <<MinDate(vis_sam), MaxDate(vis_sam)>>
    /\ hour_range = <<0, 23>>
    /\ selected_payments = PaymentTypes(vis_sam)

\* C2: with the hour range [0,23], the full date range of the sample and every
\* payment label of the sample selected, the filtered view is the whole sample.
DefaultSelectionKeepsSample ==
    (status = "ok" /\ IsDefaultSelection) => filtered_df = vis_sam

WiderDateRanges ==
    {dr \in DateRanges(vis_sam) : Len(dr) = 2 /\ dr[1] <= date_range[1] /\ date_range[2] <= dr[2]}

WiderHourRanges == {hr \in HourRanges : hr[1] <= hour_range[1] /\ hour_range[2] <= hr[2]}

WiderPayments == {sp \in SUBSET PaymentTypes(vis_sam) : selected_payments \subseteq sp}

NoFewerRows(dr, hr, sp) == Height(filtered_df) <= Height(FilterStage(vis_sam, dr, hr, sp))

DateAndHourMonotone ==
    /\ Len(date_range) = 2 =>
          \A dr \in WiderDateRanges : NoFewerRows(dr, hour_range, selected_payments)
    /\ \A hr \in WiderHourRanges : NoFewerRows(date_range, hr, selected_payments)

\* C3 as stated: widening any one of the date interval, the hour interval or the
\* payment set, the empty payment set included, never decreases the row count
\* of the filtered view.
FilterMonotoneFromEmpty ==
    status = "ok" =>
        /\ DateAndHourMonotone
        /\ \A sp \in WiderPayments : NoFewerRows(date_range, hour_range, sp)

\* C3 as amended: widening the date interval, the hour interval, or a non-empty
\* payment set never decreases the row count of the filtered view.
FilterMonotone ==
    status = "ok" =>
        /\ DateAndHourMonotone
        /\ selected_payments # {} =>
              \A sp \in WiderPayments : NoFewerRows(date_range, hour_range, sp)

\* a non-empty payment selection that a wider one strictly enlarges
FilterMonotoneWitness ==
    /\ status = "ok"
    /\ selected_payments # {}
    /\ \E sp \in WiderPayments :
          Height(filtered_df) < Height(FilterStage(vis_sam, date_range, hour_range, sp))

HourAndPaymentKeep(r) ==
    /\ Ge(r.pickup_hour, hour_range[1]) /\ Le(r.pickup_hour, hour_range[2])
    /\ selected_payments # {} => PaymentKeeps(r, selected_payments)

\* C4: a row of the sample (that the other two filters keep) is in the filtered
\* view exactly if start_date <= date(pickup) <= end_date.
DateFilterInclusive ==
    (status = "ok" /\ Len(date_range) = 2) =>
        \A i \in DOMAIN vis_sam.rows :
            LET r == vis_sam.rows[i] IN
            HourAndPaymentKeep(r) =>
                (r \in Range(filtered_df.rows) <=>
                    /\ date_range[1] <= DateOf(r.tpep_pickup_datetime[1])
                    /\ DateOf(r.tpep_pickup_datetime[1]) <= date_range[2])

RECURSIVE FareSum(_)
FareSum(rows) == IF rows = <<>> THEN 0 ELSE Head(rows).fare_amount[1] + FareSum(Tail(rows))

ExpensiveStages == {"load_taxi", "load_lookup", "cleaning", "enrichment", "sampling"}

\* C6: within a session the loader, cleaning, enrichment and sampling stages
\* are each executed at most once.
ExpensiveStagesOnce == status = "ok" => \A k \in ExpensiveStages : runs[k] <= 1

\* C7: sampling a table of fewer than n rows raises no error and yields
\* min(n, row count) rows, and the script goes on to filter and aggregate.
SamplingAbsorbsShortTables ==
    status # "init" =>
        /\ status = "ok"
        /\ Height(vis_sam) = Min(SampleN, Height(taxi_df))
        /\ runs.filter >= 1 /\ runs.aggregation >= 1

----------------------------------------------------------------------------
(* Claims about enrichment *)

ZoneColumns == {"pickup_zone", "pickup_borough", "dropoff_zone", "dropoff_borough"}

\* C8: enrichment yields the zone columns of both sides, whatever joined columns
\* its input already carries, and enriching its result again changes nothing.
EnrichmentIdempotentAndComplete ==
    /\ status \in {"enriched", "enriched twice"} => ZoneColumns \subseteq vis_sam.columns
    /\ status = "enriched twice" => filtered_df = vis_sam

----------------------------------------------------------------------------
(* Claims about the aggregates *)

RECURSIVE PercentageSum(_)
PercentageSum(s) == IF s = <<>> THEN 0 ELSE Head(s).percentage + PercentageSum(Tail(s))

Abs(x) == IF x < 0 THEN -x ELSE x

RowsWith(col, k) == Cardinality({i \in DOMAIN filtered_df.rows : filtered_df.rows[i][col] = k})

\* C9: for a non-empty view the payment breakdown has one row per distinct
\* payment_description (null is a group), each percentage is 100 * count / total
\* to the nearest hundredth, and the percentages sum to 100 within 0.005 a group.
\* Percentages are in hundredths, so the inequalities are doubled.
PaymentPercentagesSumTo100 ==
    (status = "tab4" /\ Height(filtered_df) > 0) =>
        /\ \A i, j \in DOMAIN pay_type_vis :
              i # j => pay_type_vis[i].payment_description # pay_type_vis[j].payment_description
        /\ {pay_type_vis[i].payment_description : i \in DOMAIN pay_type_vis}
              = {filtered_df.rows[i].payment_description : i \in DOMAIN filtered_df.rows}
        /\ \A i \in DOMAIN pay_type_vis :
              LET g == pay_type_vis[i] IN
              /\ g.count = RowsWith("payment_description", g.payment_description)
              /\ 2 * Abs(g.percentage * Height(filtered_df) - 10000 * g.count)
                    <= Height(filtered_df)
        /\ 2 * Abs(PercentageSum(pay_type_vis) - 10000) <= Len(pay_type_vis)

\* three groups, null among them, whose rounded percentages do not add up to 100.00
PaymentPercentagesWitness ==
    /\ status = "tab4"
    /\ Len(pay_type_vis) = 3
    /\ \E i \in DOMAIN pay_type_vis : pay_type_vis[i].payment_description = Null
    /\ PercentageSum(pay_type_vis) # 10000

FirstSeen(zone) ==
    SetMin({i \in DOMAIN filtered_df.rows : filtered_df.rows[i].pickup_zone = zone})

\* C10: the top pickup zones are at most 10 groups in non-increasing order of
\* count, no omitted zone has more pickups than a returned one, and zones with
\* equal counts are ranked in the order they first appear in the view.
TopZonesStable ==
    status \in {"tab1", "tab4"} =>
        /\ Len(zone_counts_vis) <= 10
        /\ \A i, j \in DOMAIN zone_counts_vis :
              i < j => zone_counts_vis[i].zone_pickups >= zone_counts_vis[j].zone_pickups
        /\ \A i \in DOMAIN zone_counts_vis :
              zone_counts_vis[i].zone_pickups = RowsWith("pickup_zone", zone_counts_vis[i].pickup_zone)
        /\ \A k \in GroupKeys(filtered_df, "pickup_zone") :
              \A i \in DOMAIN zone_counts_vis :
                  (\A j \in DOMAIN zone_counts_vis : zone_counts_vis[j].pickup_zone # k)
                      => RowsWith("pickup_zone", k) <= zone_counts_vis[i].zone_pickups
        /\ \A i, j \in DOMAIN zone_counts_vis :
              (i < j /\ zone_counts_vis[i].zone_pickups = zone_counts_vis[j].zone_pickups)
                  => FirstSeen(zone_counts_vis[i].pickup_zone)
                        < FirstSeen(zone_counts_vis[j].pickup_zone)

====
